---- MODULE Spec2Model ----
(***************************************************************************)
(* Model of erffa1995/nlm-telegram-news-bot:                               *)
(*   src/bot.py              the RSS -> Telegram news bot                  *)
(*   src/relay_translate.py  the channel -> channel translation relay      *)
(*                                                                         *)
(* Three specifications share the module:                                  *)
(*   Spec        runs of bot.main(), one after the other                   *)
(*   SpecRelay   runs of relay_translate.main(), one after the other       *)
(*   SpecRender  the pure text functions that build_message() applies      *)
(* Text is modelled by TLA+ strings; "x in t" of Python is Contains(x, t). *)
(***************************************************************************)
EXTENDS Integers, Sequences, FiniteSets, TLC

VARIABLES
    \* ---- bot.py ----
    stateFile,      \* state.json on disk: [kind, ids]
    env,            \* TELEGRAM_BOT_TOKEN / TELEGRAM_CHANNEL set or not
    pc,             \* position of main()
    posted,         \* main()'s local set
    srcIdx,         \* index of the feed source whose entries are iterated
    entries,        \* feed.entries of the current source
    entIdx,         \* index of the next entry of the loop
    runs,           \* number of runs started
    crashedAt,      \* function whose exception ended the run ("" if none)
    loaded,         \* history: the set load_state() returned in this run
    succeeded,      \* history: uids whose send returned True in this run
    lastIter,       \* history: what the last loop iteration did
    delivered,      \* history: uids the channel received, all runs
    redelivered,    \* history: uids the channel received more than once
    netFetches,     \* history: feeds fetched in this run
    sendRequests,   \* history: send requests made in this run
    fileWrites,     \* history: save_state() calls in this run
    \* ---- relay_translate.py ----
    relayFile,      \* relay_state.json on disk: [kind, offset]
    relayEnv,       \* the three secrets are all set or not
    pending,        \* Telegram's queue of unconfirmed updates for the bot
    nextUpdateId,   \* update_id Telegram gives the next update
    rpc,            \* position of relay main()
    offset,         \* main()'s offset
    next_offset,    \* main()'s next_offset
    updates,        \* the list tg_get_updates() returned
    updIdx,         \* index of the next update of the loop
    relayRuns,      \* number of relay runs started
    relayCrashedAt, \* function whose exception ended the relay run
    relayed,        \* history: update_ids forwarded, all runs
    reRelayed,      \* history: update_ids forwarded more than once
    relayedNow,     \* history: update_ids forwarded in this run
    \* ---- build_message ----
    rstep,          \* position inside build_message()
    inTitle,        \* its title argument
    inSummary,      \* its summary argument
    clean_summary,  \* strip_html(summary)
    happened_raw,   \* the excerpt
    cutAt,          \* history: length kept by the excerpt cut (-1: no cut)
    primary,        \* detect_primary_asset(combined)
    direction       \* infer_direction(combined, primary)

botVars == <<stateFile, env, pc, posted, srcIdx, entries, entIdx, runs,
             crashedAt, loaded, succeeded, lastIter, delivered, redelivered,
             netFetches, sendRequests, fileWrites>>
relayVars == <<relayFile, relayEnv, pending, nextUpdateId, rpc, offset,
               next_offset, updates, updIdx, relayRuns, relayCrashedAt, relayed,
               reRelayed, relayedNow>>
renderVars == <<rstep, inTitle, inSummary, clean_summary, happened_raw, cutAt,
                primary, direction>>
vars == <<botVars, relayVars, renderVars>>

(***************************************************************************)
(* Bounds of the model.                                                    *)
(***************************************************************************)
MaxRuns == 2          \* runs of bot.main() explored
MaxEntries == 1       \* entries one feed returns at most
MaxRelayRuns == 3     \* runs of the relay explored
MaxUpdates == 3       \* updates the source channel ever receives

(***************************************************************************)
(* Strings.                                                                *)
(***************************************************************************)
\* Python: needle in hay
Contains(needle, hay) ==
    \E i \in 1..(Len(hay) - Len(needle) + 1) :
        SubSeq(hay, i, i + Len(needle) - 1) = needle

CharAt(s, i) == SubSeq(s, i, i)

UpperAlpha == "ABCDEFGHIJKLMNOPQRSTUVWXYZ"
LowerAlpha == "abcdefghijklmnopqrstuvwxyz"

LowerChar(c) ==
    IF \E i \in 1..Len(UpperAlpha) : CharAt(UpperAlpha, i) = c
    THEN CharAt(LowerAlpha, CHOOSE i \in 1..Len(UpperAlpha) : CharAt(UpperAlpha, i) = c)
    ELSE c

\* str.lower(), built by halving so that long texts stay shallow
RECURSIVE LowerRange(_, _, _)
LowerRange(s, lo, hi) ==
    IF lo > hi THEN ""
    ELSE IF lo = hi THEN LowerChar(CharAt(s, lo))
    ELSE LET mid == (lo + hi) \div 2
         IN  LowerRange(s, lo, mid) \o LowerRange(s, mid + 1, hi)

Lower(s) == LowerRange(s, 1, Len(s))

(***************************************************************************)
(* bot.py: keyword tables.                                                 *)
(***************************************************************************)
HIGH_IMPACT_TERMS ==
    { "cpi", "core cpi", "pce", "core pce", "inflation",
      "non-farm payroll", "nonfarm payroll", "nfp", "payrolls",
      "unemployment rate", "jobs report",
      "fomc", "fed minutes", "fed statement", "powell",
      "federal reserve", "fed rate", "rate decision", "interest rate decision",
      "ecb rate", "boe rate", "boj rate",
      "ecb meeting", "boe meeting", "boj meeting",
      "press conference" }

RELEVANCE_TERMS ==
    { "eur", "usd", "gbp", "jpy", "chf", "aud", "cad", "nzd",
      "eur/usd", "gbp/usd", "usd/jpy", "usd/chf", "aud/usd", "usd/cad", "nzd/usd",
      "euro", "dollar", "pound", "sterling", "yen",
      "gold", "silver", "xau", "xag",
      "dax", "dow", "nasdaq", "s&p", "spx", "ndx",
      "oil", "brent", "wti", "crude" }

contains_any(term_list, text) ==
    LET t == Lower(text) IN \E x \in term_list : Contains(x, t)

is_relevant(text) == contains_any(RELEVANCE_TERMS, text)

is_high_impact(title, summary) ==
    LET t == Lower(title \o " " \o summary)
    IN  \E k \in HIGH_IMPACT_TERMS : Contains(k, t)

(***************************************************************************)
(* bot.py: feeds and entries.                                              *)
(* An entry is what feedparser yields: id, guid, link, title, summary      *)
(* ("" stands for an absent field; Python treats both as false), and age,  *)
(* the standing of its timestamp against the freshness window at the time  *)
(* of the run: "fresh", "stale" (older than the window) or "absent"        *)
(* (missing or unparseable).                                               *)
(***************************************************************************)
FEEDS == <<"FXStreet", "DailyFX", "Forexlive">>

NumFeeds == Len(FEEDS)

Entry(id, guid, link, title, summary, age) ==
    [id |-> id, guid |-> guid, link |-> link, title |-> title,
     summary |-> summary, age |-> age]

EntryPool ==
    { Entry("a", "", "https://x/1", "USD: CPI rises", "Inflation up", "fresh"),
      Entry("", "", "https://x/2", "Gold steady", "", "fresh"),
      Entry("c", "", "", "Powell speaks", "", "fresh"),
      Entry("", "", "", "Fed rate: euro falls", "", "fresh"),
      Entry("", "g5", "", "NFP lifts dollar", "", "stale"),
      Entry("f", "", "", "FOMC: yen gains", "", "absent") }

\* feed.entries: any list of at most MaxEntries entries
FeedResults == UNION { [1..n -> EntryPool] : n \in 0..MaxEntries }

\* uid = entry.get("id") or entry.get("guid") or entry.get("link")
EntryUid(e) ==
    IF e.id # "" THEN e.id
    ELSE IF e.guid # "" THEN e.guid
    ELSE e.link

\* combined = f"{title} {summary} {link}"
Combined(e) == e.title \o " " \o e.summary \o " " \o e.link

\* if not uid or uid in posted: continue
SkipsIdentifier(e, known) == EntryUid(e) = "" \/ EntryUid(e) \in known

\* The two classifiers over the pool (evaluated once, the pool being fixed)
RelevantEntries == { e \in EntryPool : is_relevant(Combined(e)) }
HighImpactEntries == { e \in EntryPool : is_high_impact(e.title, e.summary) }

\* a gate that lets an entry through when either classifier accepts it
PassesEitherGate(e) == e \in RelevantEntries \/ e \in HighImpactEntries

\* if not is_relevant(combined): continue / if not is_high_impact(...): continue
PassesGates(e) == e \in RelevantEntries /\ e \in HighImpactEntries

(***************************************************************************)
(* The transport.  requests.post either returns a response (status 200 or  *)
(* not) or raises (connection error, timeout after 30 s).  With the token  *)
(* or the channel unset the request still goes out, to .../botNone/... or  *)
(* with chat_id null, and Telegram answers with an error status.           *)
(***************************************************************************)
SendOutcomes(e) ==
    IF e.token /\ e.channel THEN {"ok", "non200", "exception"}
    ELSE {"non200", "exception"}

Environments == [token : BOOLEAN, channel : BOOLEAN]

MissingFile == [kind |-> "missing", ids |-> {}]
CorruptFile == [kind |-> "corrupt", ids |-> {}]
ValidFile(ids) == [kind |-> "valid", ids |-> ids]

\* one loop iteration: the entry, whether its uid was in posted, what was done
Iter(e, known, outcome) == [entry |-> e, known |-> known, outcome |-> outcome]

NoIter == [entry |-> Entry("", "", "", "", "", ""), known |-> FALSE, outcome |-> "none"]

(***************************************************************************)
(* bot.py: main().                                                         *)
(***************************************************************************)
InitBot ==
    /\ stateFile \in {MissingFile, CorruptFile}
    /\ env = [token |-> TRUE, channel |-> TRUE]
    /\ pc = "idle"
    /\ posted = {}
    /\ srcIdx = 0
    /\ entries = <<>>
    /\ entIdx = 1
    /\ runs = 0
    /\ crashedAt = ""
    /\ loaded = {}
    /\ succeeded = {}
    /\ lastIter = NoIter
    /\ delivered = {}
    /\ redelivered = {}
    /\ netFetches = 0
    /\ sendRequests = 0
    /\ fileWrites = 0

\* the scheduler starts the next run once the previous process has exited
StartRun ==
    /\ pc \in {"idle", "done", "crashed"}
    /\ runs < MaxRuns
    /\ runs' = runs + 1
    /\ env' \in Environments
    /\ pc' = "load"
    /\ posted' = {}
    /\ srcIdx' = 0
    /\ entries' = <<>>
    /\ entIdx' = 1
    /\ crashedAt' = ""
    /\ loaded' = {}
    /\ succeeded' = {}
    /\ lastIter' = NoIter
    /\ netFetches' = 0
    /\ sendRequests' = 0
    /\ fileWrites' = 0
    /\ UNCHANGED <<stateFile, delivered, redelivered>>
    /\ UNCHANGED <<relayVars, renderVars>>

\* posted = load_state()
load_state ==
    /\ pc = "load"
    /\ \/ /\ stateFile.kind = "missing"
          /\ posted' = {}
          /\ loaded' = {}
          /\ pc' = "loop"
          /\ UNCHANGED crashedAt
       \/ /\ stateFile.kind = "valid"
          /\ posted' = stateFile.ids
          /\ loaded' = stateFile.ids
          /\ pc' = "loop"
          /\ UNCHANGED crashedAt
       \/ /\ stateFile.kind = "corrupt"   \* json.load raises, nothing catches it
          /\ pc' = "crashed"
          /\ crashedAt' = "load_state"
          /\ UNCHANGED <<posted, loaded>>
    /\ UNCHANGED <<stateFile, env, srcIdx, entries, entIdx, runs, succeeded,
                   lastIter, delivered, redelivered, netFetches, sendRequests,
                   fileWrites>>
    /\ UNCHANGED <<relayVars, renderVars>>

\* for source, url in FEEDS.items(): feed = feedparser.parse(url)
FetchFeed ==
    /\ pc = "loop"
    /\ entIdx > Len(entries)
    /\ srcIdx < NumFeeds
    /\ srcIdx' = srcIdx + 1
    /\ entries' \in FeedResults
    /\ entIdx' = 1
    /\ netFetches' = netFetches + 1
    /\ UNCHANGED <<stateFile, env, pc, posted, runs, crashedAt, loaded,
                   succeeded, lastIter, delivered, redelivered, sendRequests,
                   fileWrites>>
    /\ UNCHANGED <<relayVars, renderVars>>

\* one iteration of "for entry in feed.entries"
ProcessEntry ==
    /\ pc = "loop"
    /\ entIdx <= Len(entries)
    /\ LET e == entries[entIdx]
           uid == EntryUid(e)
           known == uid \in posted
       IN  \/ /\ SkipsIdentifier(e, posted)
              /\ lastIter' = Iter(e, known, "skipped")
              /\ entIdx' = entIdx + 1
              /\ UNCHANGED <<pc, posted, succeeded, crashedAt, delivered,
                             redelivered, sendRequests>>
           \/ /\ ~SkipsIdentifier(e, posted)
              /\ ~PassesGates(e)
              /\ lastIter' = Iter(e, known, "skipped")
              /\ entIdx' = entIdx + 1
              /\ UNCHANGED <<pc, posted, succeeded, crashedAt, delivered,
                             redelivered, sendRequests>>
           \/ /\ ~SkipsIdentifier(e, posted)
              /\ PassesGates(e)
              /\ sendRequests' = sendRequests + 1
              /\ \E outcome \in SendOutcomes(env) :
                    /\ lastIter' = Iter(e, known, outcome)
                    /\ \/ /\ outcome = "ok"          \* posted.add(uid)
                          /\ posted' = posted \cup {uid}
                          /\ succeeded' = succeeded \cup {uid}
                          /\ delivered' = delivered \cup {uid}
                          /\ redelivered' = IF uid \in delivered
                                            THEN redelivered \cup {uid}
                                            ELSE redelivered
                          /\ entIdx' = entIdx + 1
                          /\ UNCHANGED <<pc, crashedAt>>
                       \/ /\ outcome = "non200"      \* return False
                          /\ entIdx' = entIdx + 1
                          /\ UNCHANGED <<pc, posted, succeeded, crashedAt,
                                         delivered, redelivered>>
                       \/ /\ outcome = "exception"   \* requests.post raises
                          /\ pc' = "crashed"
                          /\ crashedAt' = "send_to_telegram"
                          /\ UNCHANGED <<posted, succeeded, entIdx, delivered,
                                         redelivered>>
    /\ UNCHANGED <<stateFile, env, srcIdx, entries, runs, loaded, netFetches,
                   fileWrites>>
    /\ UNCHANGED <<relayVars, renderVars>>

\* save_state(posted), after the last feed
save_state ==
    /\ pc = "loop"
    /\ entIdx > Len(entries)
    /\ srcIdx = NumFeeds
    /\ stateFile' = ValidFile(posted)
    /\ fileWrites' = fileWrites + 1
    /\ pc' = "done"
    /\ UNCHANGED <<env, posted, srcIdx, entries, entIdx, runs, crashedAt,
                   loaded, succeeded, lastIter, delivered, redelivered,
                   netFetches, sendRequests>>
    /\ UNCHANGED <<relayVars, renderVars>>

(***************************************************************************)
(* relay_translate.py.                                                     *)
(* An update is what getUpdates yields: update_id and the channel_post's   *)
(* chat username and text.  Telegram keeps an update in the bot's queue    *)
(* until getUpdates is called with an offset above its update_id.          *)
(***************************************************************************)
SOURCE_USERNAME == "newsroom"

\* stands for the check-mark emoji U+2705 of the news template
CheckMark == "[v]"

PostPool ==
    { [username |-> "NewsRoom", text |-> CheckMark \o " <b>MARKET NEWS</b> gold"],
      [username |-> "elsewhere", text |-> CheckMark \o " <b>MARKET NEWS</b> gold"],
      [username |-> "NewsRoom", text |-> "channel photo changed"],
      [username |-> "NewsRoom", text |-> " "] }

Update(id, post) ==
    [update_id |-> id, username |-> post.username, text |-> post.text]

\* username == SOURCE_USERNAME, after (chat.get("username") or "").lower()
is_from_source_channel(update) == Lower(update.username) = SOURCE_USERNAME

\* text.strip() is empty
IsBlank(text) == \A i \in 1..Len(text) : CharAt(text, i) = " "

looks_like_market_news(text) == Contains(CheckMark, text) /\ Contains("MARKET NEWS", text)

\* the three "continue" tests of main()'s loop
Relayable(update) ==
    /\ is_from_source_channel(update)
    /\ ~IsBlank(update.text)
    /\ looks_like_market_news(update.text)

\* the updates of a queue with update_id >= offset, in order
RECURSIVE FromOffset(_, _)
FromOffset(queue, off) ==
    IF queue = <<>> THEN <<>>
    ELSE IF Head(queue).update_id >= off
         THEN <<Head(queue)>> \o FromOffset(Tail(queue), off)
         ELSE FromOffset(Tail(queue), off)

RelayMissing == [kind |-> "missing", offset |-> 0]
RelayCorrupt == [kind |-> "corrupt", offset |-> 0]
RelayValid(off) == [kind |-> "valid", offset |-> off]

InitRelay ==
    /\ relayFile \in {RelayMissing, RelayCorrupt}
    /\ relayEnv = TRUE
    /\ pending = <<>>
    /\ nextUpdateId = 1
    /\ rpc = "idle"
    /\ offset = 0
    /\ next_offset = 0
    /\ updates = <<>>
    /\ updIdx = 1
    /\ relayRuns = 0
    /\ relayCrashedAt = ""
    /\ relayed = {}
    /\ reRelayed = {}
    /\ relayedNow = {}

\* somebody posts in a channel the bot is a member of
ChannelPost ==
    /\ nextUpdateId <= MaxUpdates
    /\ \E post \in PostPool :
          pending' = Append(pending, Update(nextUpdateId, post))
    /\ nextUpdateId' = nextUpdateId + 1
    /\ UNCHANGED <<relayFile, relayEnv, rpc, offset, next_offset, updates,
                   updIdx, relayRuns, relayCrashedAt, relayed, reRelayed,
                   relayedNow>>
    /\ UNCHANGED <<botVars, renderVars>>

\* the scheduler starts the next run once the previous process has exited
RelayStart ==
    /\ rpc \in {"idle", "done", "crashed"}
    /\ relayRuns < MaxRelayRuns
    /\ relayRuns' = relayRuns + 1
    /\ relayEnv' \in BOOLEAN
    /\ rpc' = "check"
    /\ offset' = 0
    /\ next_offset' = 0
    /\ updates' = <<>>
    /\ updIdx' = 1
    /\ relayCrashedAt' = ""
    /\ relayedNow' = {}
    /\ UNCHANGED <<relayFile, pending, nextUpdateId, relayed, reRelayed>>
    /\ UNCHANGED <<botVars, renderVars>>

\* if not BOT_TOKEN or not SOURCE_USERNAME or not TARGET_CHANNEL: raise
CheckSecrets ==
    /\ rpc = "check"
    /\ \/ /\ ~relayEnv
          /\ rpc' = "crashed"
          /\ relayCrashedAt' = "main"
       \/ /\ relayEnv
          /\ rpc' = "argos"
          /\ UNCHANGED relayCrashedAt
    /\ UNCHANGED <<relayFile, relayEnv, pending, nextUpdateId, offset,
                   next_offset, updates, updIdx, relayRuns, relayed, reRelayed,
                   relayedNow>>
    /\ UNCHANGED <<botVars, renderVars>>

\* ensure_argos_en_fa(): the en->fa package is there or gets installed, or
\* the package index cannot be had and the call raises
ensure_argos_en_fa ==
    /\ rpc = "argos"
    /\ \/ /\ rpc' = "load"
          /\ UNCHANGED relayCrashedAt
       \/ /\ rpc' = "crashed"
          /\ relayCrashedAt' = "ensure_argos_en_fa"
    /\ UNCHANGED <<relayFile, relayEnv, pending, nextUpdateId, offset,
                   next_offset, updates, updIdx, relayRuns, relayed, reRelayed,
                   relayedNow>>
    /\ UNCHANGED <<botVars, renderVars>>

\* state = load_state(); offset = int(state.get("offset", 0))
relay_load_state ==
    /\ rpc = "load"
    /\ \/ /\ relayFile.kind = "missing"
          /\ offset' = 0
          /\ rpc' = "get"
          /\ UNCHANGED relayCrashedAt
       \/ /\ relayFile.kind = "valid"
          /\ offset' = relayFile.offset
          /\ rpc' = "get"
          /\ UNCHANGED relayCrashedAt
       \/ /\ relayFile.kind = "corrupt"   \* json.load raises, nothing catches it
          /\ rpc' = "crashed"
          /\ relayCrashedAt' = "load_state"
          /\ UNCHANGED offset
    /\ UNCHANGED <<relayFile, relayEnv, pending, nextUpdateId, next_offset,
                   updates, updIdx, relayRuns, relayed, reRelayed, relayedNow>>
    /\ UNCHANGED <<botVars, renderVars>>

\* updates = tg_get_updates(offset=offset); next_offset = offset
tg_get_updates ==
    /\ rpc = "get"
    /\ \/ /\ updates' = FromOffset(pending, offset)
          /\ pending' = FromOffset(pending, offset)
          /\ next_offset' = offset
          /\ updIdx' = 1
          /\ rpc' = "loop"
          /\ UNCHANGED relayCrashedAt
       \/ /\ rpc' = "crashed"               \* raise_for_status / network error
          /\ relayCrashedAt' = "tg_get_updates"
          /\ UNCHANGED <<updates, pending, next_offset, updIdx>>
    /\ UNCHANGED <<relayFile, relayEnv, nextUpdateId, offset, relayRuns,
                   relayed, reRelayed, relayedNow>>
    /\ UNCHANGED <<botVars, renderVars>>

\* one iteration of "for upd in updates"
ProcessUpdate ==
    /\ rpc = "loop"
    /\ updIdx <= Len(updates)
    /\ LET upd == updates[updIdx]
           uid == upd.update_id
           advanced == IF uid >= next_offset THEN uid + 1 ELSE next_offset
       IN  \/ /\ ~Relayable(upd)             \* continue
              /\ next_offset' = advanced
              /\ updIdx' = updIdx + 1
              /\ UNCHANGED <<rpc, relayCrashedAt, relayed, reRelayed, relayedNow>>
           \/ /\ Relayable(upd)              \* tg_send_message returns
              /\ next_offset' = advanced
              /\ updIdx' = updIdx + 1
              /\ relayed' = relayed \cup {uid}
              /\ reRelayed' = IF uid \in relayed THEN reRelayed \cup {uid}
                              ELSE reRelayed
              /\ relayedNow' = relayedNow \cup {uid}
              /\ UNCHANGED <<rpc, relayCrashedAt>>
           \/ /\ Relayable(upd)              \* the translation or tg_send_message raises
              /\ next_offset' = advanced
              /\ rpc' = "crashed"
              /\ relayCrashedAt' = "tg_send_message"
              /\ UNCHANGED <<updIdx, relayed, reRelayed, relayedNow>>
    /\ UNCHANGED <<relayFile, relayEnv, pending, nextUpdateId, offset, updates,
                   relayRuns>>
    /\ UNCHANGED <<botVars, renderVars>>

\* state["offset"] = next_offset; save_state(state)
relay_save_state ==
    /\ rpc = "loop"
    /\ updIdx > Len(updates)
    /\ relayFile' = RelayValid(next_offset)
    /\ rpc' = "done"
    /\ UNCHANGED <<relayEnv, pending, nextUpdateId, offset, next_offset,
                   updates, updIdx, relayRuns, relayCrashedAt, relayed,
                   reRelayed, relayedNow>>
    /\ UNCHANGED <<botVars, renderVars>>

(***************************************************************************)
(* bot.py: the text functions of build_message().                          *)
(***************************************************************************)
\* s repeated n times, built by doubling
RECURSIVE Rep(_, _)
Rep(s, n) ==
    IF n = 0 THEN ""
    ELSE LET h == Rep(s, n \div 2)
         IN  IF n % 2 = 0 THEN h \o h ELSE h \o h \o s

\* what \s of a Python regex matches, among the characters of the model
Whitespace == {" ", "\t", "\n", "\r"}

\* re.sub(r"<.*?>", "", text): the leftmost "<" that a ">" follows with no
\* newline in between is removed up to the nearest such ">"; then the rest
ClosesTag(s, p, q) ==
    /\ CharAt(s, q) = ">"
    /\ \A k \in (p + 1)..(q - 1) : CharAt(s, k) # "\n"

TagStarts(s) ==
    { p \in 1..Len(s) :
        CharAt(s, p) = "<" /\ \E q \in (p + 1)..Len(s) : ClosesTag(s, p, q) }

RECURSIVE StripTags(_)
StripTags(s) ==
    LET starts == TagStarts(s)
    IN  IF starts = {} THEN s
        ELSE LET p == CHOOSE x \in starts : \A y \in starts : x <= y
                 ends == { q \in (p + 1)..Len(s) : ClosesTag(s, p, q) }
                 q == CHOOSE x \in ends : \A y \in ends : x <= y
             IN  SubSeq(s, 1, p - 1) \o StripTags(SubSeq(s, q + 1, Len(s)))

\* re.sub(r"\s+", " ", clean): a run of whitespace becomes one space
RECURSIVE CollapseRange(_, _, _)
CollapseRange(s, lo, hi) ==
    IF lo > hi THEN ""
    ELSE IF lo = hi
         THEN IF CharAt(s, lo) \notin Whitespace THEN CharAt(s, lo)
              ELSE IF lo > 1 /\ CharAt(s, lo - 1) \in Whitespace THEN ""
              ELSE " "
    ELSE LET mid == (lo + hi) \div 2
         IN  CollapseRange(s, lo, mid) \o CollapseRange(s, mid + 1, hi)

CollapseWhitespace(s) == CollapseRange(s, 1, Len(s))

\* str.strip() of a text whose whitespace runs are single spaces
Strip(s) ==
    LET a == IF Len(s) > 0 /\ CharAt(s, 1) = " " THEN 2 ELSE 1
        b == IF Len(s) >= a /\ CharAt(s, Len(s)) = " " THEN Len(s) - 1 ELSE Len(s)
    IN  SubSeq(s, a, b)

strip_html(text) == Strip(CollapseWhitespace(StripTags(text)))

NoSummaryText ==
    "No detailed summary was provided in the RSS feed. Please refer to the original source for full context."

ExcerptBudget == 850

\* head.rsplit(" ", 1)[0]: head up to its last space, all of it if it has none
RsplitFirst(head) ==
    LET spaces == { i \in 1..Len(head) : CharAt(head, i) = " " }
    IN  IF spaces = {} THEN head
        ELSE SubSeq(head, 1, (CHOOSE i \in spaces : \A j \in spaces : j <= i) - 1)

\* happened_raw before the cut
HappenedRaw(clean) == Strip(IF clean # "" THEN clean ELSE NoSummaryText)

\* number of characters the cut keeps, -1 when the text is not cut
ExcerptCut(raw) ==
    IF Len(raw) > ExcerptBudget
    THEN Len(RsplitFirst(SubSeq(raw, 1, ExcerptBudget)))
    ELSE -1

\* if len(happened_raw) > 850: happened_raw[:850].rsplit(" ", 1)[0] + "..."
Excerpt(raw) ==
    IF Len(raw) > ExcerptBudget
    THEN RsplitFirst(SubSeq(raw, 1, ExcerptBudget)) \o "..."
    ELSE raw

PAIR_RULES ==
    << <<"eur/usd", "EURUSD">>, <<"eurusd", "EURUSD">>,
       <<"gbp/usd", "GBPUSD">>, <<"gbpusd", "GBPUSD">>,
       <<"usd/jpy", "USDJPY">>, <<"usdjpy", "USDJPY">>,
       <<"usd/chf", "USDCHF">>, <<"usdchf", "USDCHF">>,
       <<"aud/usd", "AUDUSD">>, <<"audusd", "AUDUSD">>,
       <<"usd/cad", "USDCAD">>, <<"usdcad", "USDCAD">>,
       <<"nzd/usd", "NZDUSD">>, <<"nzdusd", "NZDUSD">>,
       <<"eur/gbp", "EURGBP">>, <<"eurgbp", "EURGBP">>,
       <<"eur/jpy", "EURJPY">>, <<"eurjpy", "EURJPY">>,
       <<"gbp/jpy", "GBPJPY">>, <<"gbpjpy", "GBPJPY">> >>

NONFX_PRIMARY_RULES ==
    << <<"xauusd", "GOLD">>, <<"gold", "GOLD">>,
       <<"xagusd", "SILVER">>, <<"silver", "SILVER">>,
       <<"wtiusd", "WTI">>, <<"wti", "WTI">>,
       <<"brnusd", "BRENT">>, <<"brent", "BRENT">>,
       <<"ndx", "NASDAQ">>, <<"nasdaq", "NASDAQ">>,
       <<"spx", "SP500">>, <<"s&p", "SP500">>,
       <<"dji", "DOWJONES">>, <<"dow", "DOWJONES">>,
       <<"daxeur", "DAX">>, <<"dax", "DAX">>,
       <<"crude", "OIL">>, <<"oil", "OIL">> >>

CURRENCY_FALLBACK_RULES ==
    << <<" usd ", "USD">>, <<"dollar", "USD">>,
       <<" eur ", "EUR">>, <<"euro", "EUR">>,
       <<" gbp ", "GBP">>, <<"pound", "GBP">>, <<"sterling", "GBP">>,
       <<" jpy ", "JPY">>, <<"yen", "JPY">>,
       <<" chf ", "CHF">>,
       <<" aud ", "AUD">>,
       <<" cad ", "CAD">>,
       <<" nzd ", "NZD">> >>

\* for needle, sym in rules: if needle in text: return sym   ("" if none)
FirstRule(rules, text) ==
    LET hits == { i \in 1..Len(rules) : Contains(rules[i][1], text) }
    IN  IF hits = {} THEN ""
        ELSE rules[CHOOSE i \in hits : \A j \in hits : i <= j][2]

detect_primary_asset(text) ==
    LET lower == Lower(text)
        pair == FirstRule(PAIR_RULES, lower)
        nonfx == FirstRule(NONFX_PRIMARY_RULES, lower)
        ccy == FirstRule(CURRENCY_FALLBACK_RULES, " " \o lower \o " ")
    IN  IF pair # "" THEN pair
        ELSE IF nonfx # "" THEN nonfx
        ELSE ccy

up_words ==
    {"rises", "rise", "rallies", "rally", "gains", "gain", "jumps", "surges",
     "climbs", "advances", "strengthens"}
down_words ==
    {"falls", "fall", "drops", "drop", "slides", "slide", "tumbles",
     "declines", "decline", "weakens", "sinks"}
neutral_words ==
    {"pauses", "stalls", "steady", "range-bound", "range bound", "flat",
     "sideways", "consolidates", "consolidation"}
vol_words == {"volatile", "volatility", "whipsaw", "swings", "choppy"}

fx_pairs ==
    {"EURUSD", "GBPUSD", "AUDUSD", "NZDUSD", "USDJPY", "USDCHF", "USDCAD",
     "EURGBP", "EURJPY", "GBPJPY"}

\* (f" {ccy.lower()} " in f" {t} ") and ("strengthens" in t)
c_strengthens(ccy, t) ==
    Contains(" " \o Lower(ccy) \o " ", " " \o t \o " ") /\ Contains("strengthens", t)

c_weakens(ccy, t) ==
    Contains(" " \o Lower(ccy) \o " ", " " \o t \o " ") /\ Contains("weakens", t)

\* the block under "Mechanical FX inference", reached when no return above it fired
MechanicalFx(t, prim) ==
    LET base == SubSeq(prim, 1, 3)
        quote == SubSeq(prim, 4, Len(prim))
    IN  IF prim \notin fx_pairs THEN "UNCLEAR"
        ELSE IF c_strengthens(base, t) THEN "UP"
        ELSE IF c_weakens(base, t) THEN "DOWN"
        ELSE IF c_strengthens(quote, t) THEN "DOWN"
        ELSE IF c_weakens(quote, t) THEN "UP"
        ELSE IF quote = "USD" /\ Contains("usd", t) /\ Contains("strengthens", t) THEN "DOWN"
        ELSE IF quote = "USD" /\ Contains("usd", t) /\ Contains("weakens", t) THEN "UP"
        ELSE "UNCLEAR"

infer_direction(text, prim) ==
    LET t == Lower(text)
        has_up == \E w \in up_words : Contains(w, t)
        has_down == \E w \in down_words : Contains(w, t)
        has_neutral == \E w \in neutral_words : Contains(w, t)
        has_vol == \E w \in vol_words : Contains(w, t)
    IN  IF has_vol \/ (has_up /\ has_down) THEN "VOLATILITY"
        ELSE IF has_neutral /\ ~(has_up \/ has_down) THEN "NEUTRAL"
        ELSE IF has_up /\ ~has_down THEN "UP"
        ELSE IF has_down /\ ~has_up THEN "DOWN"
        ELSE MechanicalFx(t, prim)

\* combined = f"{title} {summary} {link}", for an entry without link
RenderCombined == inTitle \o " " \o inSummary \o " "

(***************************************************************************)
(* Inputs of build_message() explored by SpecRender.                       *)
(***************************************************************************)
ScenarioD == "EUR/USD falls as dollar strengthens"

PairNames == {"EUR/USD", "USD/JPY", "gbpusd"}
CurrencyWords == {"usd", "eur", "jpy", "dollar"}
MoveWords == {"strengthens", "weakens", "is unchanged"}

Titles ==
    { p \o ": " \o c \o " " \o m : p \in PairNames, c \in CurrencyWords, m \in MoveWords }
        \cup {ScenarioD, "Gold steady"}

ShortSummaries == {"", "<p>Markets  await\n the <b>Fed</b></p> "}

\* texts whose normalised length lies around the excerpt budget
LongSummaries ==
    { Rep("lorem ", k) : k \in 141..144 }
        \cup { Rep("x", n) : n \in (ExcerptBudget - 1)..(ExcerptBudget + 2) }
        \cup { Rep("x", n) \o " tail" : n \in (ExcerptBudget - 2)..(ExcerptBudget + 1) }
        \cup { "<p>" \o Rep("lorem   ipsum\n", 70) \o "</p>" }

RenderInputs ==
    (Titles \X ShortSummaries) \cup ({"Gold steady"} \X LongSummaries)

InitRender ==
    /\ rstep = "start"
    /\ \E input \in RenderInputs :
          /\ inTitle = input[1]
          /\ inSummary = input[2]
    /\ clean_summary = ""
    /\ happened_raw = ""
    /\ cutAt = -1
    /\ primary = ""
    /\ direction = ""

\* clean_summary = strip_html(summary or "")
StripSummary ==
    /\ rstep = "start"
    /\ clean_summary' = strip_html(inSummary)
    /\ rstep' = "excerpt"
    /\ UNCHANGED <<inTitle, inSummary, happened_raw, cutAt, primary, direction>>
    /\ UNCHANGED <<botVars, relayVars>>

\* happened_raw = clean_summary or (...); strip; cut to the budget
CutExcerpt ==
    /\ rstep = "excerpt"
    /\ happened_raw' = Excerpt(HappenedRaw(clean_summary))
    /\ cutAt' = ExcerptCut(HappenedRaw(clean_summary))
    /\ rstep' = "asset"
    /\ UNCHANGED <<inTitle, inSummary, clean_summary, primary, direction>>
    /\ UNCHANGED <<botVars, relayVars>>

\* primary = detect_primary_asset(combined)
DetectPrimary ==
    /\ rstep = "asset"
    /\ primary' = detect_primary_asset(RenderCombined)
    /\ rstep' = "direction"
    /\ UNCHANGED <<inTitle, inSummary, clean_summary, happened_raw, cutAt, direction>>
    /\ UNCHANGED <<botVars, relayVars>>

\* direction = infer_direction(combined, primary)
InferDirection ==
    /\ rstep = "direction"
    /\ direction' = infer_direction(RenderCombined, primary)
    /\ rstep' = "done"
    /\ UNCHANGED <<inTitle, inSummary, clean_summary, happened_raw, cutAt, primary>>
    /\ UNCHANGED <<botVars, relayVars>>

(***************************************************************************)
(* Specifications.  Each one runs one program; the variables of the other  *)
(* two stay parked at their initial values.                                *)
(***************************************************************************)
RelayParked ==
    /\ relayFile = [kind |-> "missing", offset |-> 0]
    /\ relayEnv = TRUE
    /\ pending = <<>>
    /\ nextUpdateId = 1
    /\ rpc = "idle"
    /\ offset = 0
    /\ next_offset = 0
    /\ updates = <<>>
    /\ updIdx = 1
    /\ relayRuns = 0
    /\ relayCrashedAt = ""
    /\ relayed = {}
    /\ reRelayed = {}
    /\ relayedNow = {}

RenderParked ==
    /\ rstep = "idle"
    /\ inTitle = ""
    /\ inSummary = ""
    /\ clean_summary = ""
    /\ happened_raw = ""
    /\ cutAt = -1
    /\ primary = ""
    /\ direction = ""

Init == InitBot /\ RelayParked /\ RenderParked

Next == StartRun \/ load_state \/ FetchFeed \/ ProcessEntry \/ save_state

Spec == Init /\ [][Next]_vars

BotParked ==
    /\ stateFile = MissingFile
    /\ env = [token |-> TRUE, channel |-> TRUE]
    /\ pc = "idle"
    /\ posted = {}
    /\ srcIdx = 0
    /\ entries = <<>>
    /\ entIdx = 1
    /\ runs = 0
    /\ crashedAt = ""
    /\ loaded = {}
    /\ succeeded = {}
    /\ lastIter = NoIter
    /\ delivered = {}
    /\ redelivered = {}
    /\ netFetches = 0
    /\ sendRequests = 0
    /\ fileWrites = 0

RelayInit == BotParked /\ InitRelay /\ RenderParked

RelayNext ==
    \/ ChannelPost
    \/ RelayStart
    \/ CheckSecrets
    \/ ensure_argos_en_fa
    \/ relay_load_state
    \/ tg_get_updates
    \/ ProcessUpdate
    \/ relay_save_state

SpecRelay == RelayInit /\ [][RelayNext]_vars

RenderInit == BotParked /\ RelayParked /\ InitRender

RenderNext == StripSummary \/ CutExcerpt \/ DetectPrimary \/ InferDirection

SpecRender == RenderInit /\ [][RenderNext]_vars

(***************************************************************************)
(* Claims about bot.main(), checked under Spec.                            *)
(***************************************************************************)
MissingCredential == ~env.token \/ ~env.channel

RunOver == pc \in {"done", "crashed"}

SendFailed == lastIter.outcome \in {"non200", "exception"}

\* C1: over non-overlapping runs, whatever each transport call does, no
\* identifier is successfully posted to the channel more than once.
C1_AtMostOncePerIdentifier == redelivered = {}

\* C2: a failed send (non-200 response or raised network exception) is
\* contained: the run is not ended by it, and a run that had one still
\* persists state once at its end, with every identifier it delivered.
C2_SendFailureContained ==
    ~MissingCredential =>
        /\ crashedAt # "send_to_telegram"
        /\ SendFailed => pc \in {"loop", "done"}
        /\ pc = "done" => fileWrites = 1 /\ succeeded \subseteq stateFile.ids

\* C3: at the end of any run the persisted set is the loaded set plus exactly
\* the identifiers whose send returned success in that run.
C3_PersistedIsLoadedPlusSucceeded ==
    RunOver => stateFile.ids = loaded \cup succeeded

\* C4: loading persisted state never aborts a run; a missing or corrupt state
\* file makes the bot start from the empty identifier set.
C4_LoadNeverAborts ==
    /\ crashedAt # "load_state"
    /\ (pc = "loop" /\ stateFile.kind \in {"missing", "corrupt"}) => loaded = {}

\* C5: with the bot token or the channel unset the run aborts before any
\* network activity: no feed fetched, no message sent, no state written.
C5_MissingCredentialAborts ==
    (pc # "idle" /\ MissingCredential) =>
        /\ netFetches = 0
        /\ sendRequests = 0
        /\ fileWrites = 0

\* C6 (as claimed): an entry is sent only if it passes both gates, and an
\* entry that passes both is sent in the first run that sees it.
C6_BothGatesAlwaysSent ==
    (lastIter.outcome # "none" /\ ~MissingCredential) =>
        LET e == lastIter.entry
            both == e \in RelevantEntries /\ e \in HighImpactEntries
        IN  /\ lastIter.outcome # "skipped" => both
            /\ (both /\ ~lastIter.known) => lastIter.outcome # "skipped"

\* C6 (amended): a loop iteration makes a send request exactly when the
\* entry is relevant and high-impact and carries an identifier (id, guid or
\* link) that is not yet recorded as delivered; so relevant-only and
\* high-impact-only entries are never sent.
C6_SentIffGatesAndNewIdentifier ==
    lastIter.outcome # "none" =>
        LET e == lastIter.entry
        IN  (lastIter.outcome # "skipped") <=>
                /\ e \in RelevantEntries
                /\ e \in HighImpactEntries
                /\ EntryUid(e) # ""
                /\ ~lastIter.known

\* C6 witness: in one run a relevant, high-impact entry with a new identifier
\* has been delivered and, after it, the relevant-only entry was skipped.
C6_Witness ==
    /\ "a" \in succeeded
    /\ lastIter.entry.title = "Gold steady"
    /\ lastIter.entry \in RelevantEntries \ HighImpactEntries
    /\ ~lastIter.known
    /\ lastIter.outcome = "skipped"

\* C7: an entry whose timestamp is absent, unparseable or older than the
\* freshness window is skipped: never sent, never recorded.
NotFreshUids == { EntryUid(e) : e \in { x \in EntryPool : x.age # "fresh" } }

C7_AgeFilterApplied ==
    /\ lastIter.outcome = "ok" => lastIter.entry.age = "fresh"
    /\ posted \cap NotFreshUids = {}
    /\ stateFile.ids \cap NotFreshUids = {}

(***************************************************************************)
(* Claims about build_message(), checked under SpecRender.                 *)
(***************************************************************************)
\* C8: for a currency-pair primary asset, wording that the quote currency
\* strengthens yields DOWN and that it weakens yields UP (base currency:
\* strengthens UP, weakens DOWN); "EUR/USD falls as dollar strengthens"
\* yields primary EURUSD and direction DOWN.
C8_MechanicalFxDirection ==
    rstep = "done" =>
        LET t == Lower(RenderCombined)
            base == SubSeq(primary, 1, 3)
            quote == SubSeq(primary, 4, Len(primary))
        IN  /\ inTitle = ScenarioD => primary = "EURUSD" /\ direction = "DOWN"
            /\ primary \in fx_pairs =>
                  /\ c_strengthens(base, t) => direction = "UP"
                  /\ c_weakens(base, t) => direction = "DOWN"
                  /\ c_strengthens(quote, t) => direction = "DOWN"
                  /\ c_weakens(quote, t) => direction = "UP"

\* C9: for every normalised body text longer than the excerpt budget the
\* excerpt is a prefix of the text followed by an ellipsis, and the character
\* of the text right after the cut is whitespace (no word is split).
C9_ExcerptNeverSplitsWord ==
    LET raw == HappenedRaw(clean_summary)
    IN  (rstep \in {"asset", "direction", "done"} /\ Len(raw) > ExcerptBudget) =>
            /\ cutAt \in 0..ExcerptBudget
            /\ happened_raw = SubSeq(raw, 1, cutAt) \o "..."
            /\ CharAt(raw, cutAt + 1) \in Whitespace

(***************************************************************************)
(* Claims about the relay, checked under SpecRelay.                        *)
(***************************************************************************)
\* C10: over non-overlapping relay runs, whatever each send does, an update
\* is forwarded at most once, and once update u has been forwarded the offset
\* a later run loads is greater than u.
C10_RelayAtMostOnce ==
    /\ reRelayed = {}
    /\ rpc \in {"get", "loop", "done"} => \A u \in relayed \ relayedNow : offset > u

====
